---- MODULE Spec2Model ----
(***************************************************************************)
(* Model of the snake game core of src/src/lib.rs: Direction, Snake        *)
(* (segments, direction, next_direction), SnakeGame (food, score, state,   *)
(* viewport), the key handler handle_input and the fixed-step update with  *)
(* its food relocation loop, the frame loop of SnakeGame::run, and the     *)
(* startup from the command line (Config::new, SnakeGame::new).  Positions *)
(* are pixel coordinates, as in the code; every coordinate the game        *)
(* produces is a whole number of pixels.                                   *)
(***************************************************************************)
EXTENDS Integers, Sequences, FiniteSets, TLC

VARIABLES
    viewport,        \* SnakeGame.viewport: [left, top, width, height]
    segments,        \* Snake.segments: positions, head first
    direction,       \* Snake.direction: None or a Direction
    next_direction,  \* Snake.next_direction
    food,            \* position of SnakeGame.food
    score,           \* SnakeGame.score (u32)
    state,           \* SnakeGame.state
    pc,              \* "idle"; "relocate": inside the while loop of update;
                     \* "called": after a direct call of a Snake method
    food_position,   \* the local food_position of new / update
    op,              \* history: the handler called last, with its key
    pre,             \* history: the game fields when that handler was entered
    committed,       \* history: the direction committed by the latest advance
    window,          \* SnakeGame.window: "none" (not created), "open", "closed"
    time_since_last_update,  \* the accumulator of run, in time units
    rpc,             \* the statement of run that is executed next
    clock,           \* history of run: the time elapsed, the periods
                     \* subtracted, the calls of update, the call made last,
                     \* and the updates and renders of the outer iteration
    startup          \* the startup: its stage, and the command line

vars == <<viewport, segments, direction, next_direction, food, score, state,
          pc, food_position, op, pre, committed,
          window, time_since_last_update, rpc, clock, startup>>

\* What the handlers of the game leave alone.
runvars == <<window, time_since_last_update, rpc, clock, startup>>

game == <<segments, direction, next_direction, food, score, state>>

----------------------------------------------------------------------------
(* Bounds of the model *)

\* Largest number of grid columns of the viewports the model starts from.
MaxCols == 2

\* Largest time one clock.restart() of run returns, in time units.
MaxDt == 5

\* The time the frame loop is followed for, in time units.
MaxElapsed == 5

----------------------------------------------------------------------------
(* Program constants *)

EntitySize == 40
ScoreStep == 10
Fps == 10
TextSize == 50

\* SnakeGame::new: time_per_frame = 1 / fps seconds, in units of 1/20 s.
time_per_frame == 20 \div Fps

None == "None"
Direction == {"Left", "Up", "Right", "Down"}
State == {"Pause", "Play", "GameOver"}
\* Key::A, W, D, S, P and one key standing for every other key.
Key == {"A", "W", "D", "S", "P", "Escape"}

----------------------------------------------------------------------------
(* Geometry *)

Vector2f(x, y) == [x |-> x, y |-> y]
FloatRect(l, t, w, h) == [left |-> l, top |-> t, width |-> w, height |-> h]

Max(a, b) == IF a >= b THEN a ELSE b
Min(a, b) == IF a <= b THEN a ELSE b

\* Rust's % on numbers: the remainder has the sign of the dividend.
Rem(a, b) == IF a >= 0 THEN a % b ELSE 0 - ((0 - a) % b)

\* FloatRect::intersection(..).is_some(): the overlap has a positive area.
intersection(a, b) ==
    /\ Max(a.left, b.left) < Min(a.left + a.width, b.left + b.width)
    /\ Max(a.top, b.top) < Min(a.top + a.height, b.top + b.height)

\* Entity::area of an entity at position p.
area(p) == FloatRect(p.x, p.y, EntitySize, EntitySize)

----------------------------------------------------------------------------
(* Direction *)

\* Mutant of is_opposite_to: only Left and Right are known as opposites.
is_opposite_to_horizontal(self, other) ==
    IF other = None THEN FALSE
    ELSE CASE self = "Left"  -> other = "Right"
           [] self = "Right" -> other = "Left"
           [] OTHER -> FALSE

is_opposite_to(self, other) ==
    IF other = None THEN FALSE
    ELSE CASE self = "Left"  -> other = "Right"
           [] self = "Up"    -> other = "Down"
           [] self = "Right" -> other = "Left"
           [] self = "Down"  -> other = "Up"

----------------------------------------------------------------------------
(* Snake *)

head_position(segs) == Head(segs)

\* Snake::collision: the probe area against the segments from index n_skip on
\* (0-based), each segment taken with the probe's width and height.
collision(segs, a, n_skip) ==
    \E i \in (n_skip + 1)..Len(segs) :
        intersection(a, FloatRect(segs[i].x, segs[i].y, a.width, a.height))

\* Mutant of self_collision: the head is tested against itself too.
self_collision_from_head(segs) == collision(segs, area(head_position(segs)), 0)

self_collision(segs) == collision(segs, area(head_position(segs)), 1)

\* Mutant of grow: the new segment starts where the last segment is.
grow_at_tail(segs) == Append(segs, segs[Len(segs)])

grow(segs) == Append(segs, head_position(segs))

\* Mutant of reset: the head is removed too.
reset_to_empty(segs) == <<>>

\* Mutant of reset: no segment is removed.
reset_keeps_all(segs) == segs

RECURSIVE reset(_)
reset(segs) == IF Len(segs) > 1 THEN reset(SubSeq(segs, 1, Len(segs) - 1)) ELSE segs

\* Mutant of new_head: the wrap ignores the origin of the viewport.
new_head_naive(segs, dir, vp) ==
    LET front_position == head_position(segs)
        size == EntitySize
        back_position == segs[Len(segs)]
    IN  CASE dir = "Left" ->
               Vector2f(Rem(front_position.x - size + vp.width, vp.width), front_position.y)
          [] dir = "Up" ->
               Vector2f(front_position.x, Rem(front_position.y - size + vp.height, vp.height))
          [] dir = "Right" ->
               Vector2f(Rem(front_position.x + size, vp.width), front_position.y)
          [] dir = "Down" ->
               Vector2f(front_position.x, Rem(front_position.y + size, vp.height))
          [] OTHER -> back_position

\* Mutant of new_head: without a direction the tail is put on the head.
new_head_on_front(segs, dir, vp) ==
    LET front_position == head_position(segs)
        size == EntitySize
    IN  CASE dir = "Left" ->
               Vector2f(Rem(front_position.x - size + vp.width - vp.left, vp.width) + vp.left,
                        front_position.y)
          [] dir = "Up" ->
               Vector2f(front_position.x,
                        Rem(front_position.y - size + vp.height - vp.top, vp.height) + vp.top)
          [] dir = "Right" ->
               Vector2f(Rem(front_position.x + size - vp.left, vp.width) + vp.left,
                        front_position.y)
          [] dir = "Down" ->
               Vector2f(front_position.x,
                        Rem(front_position.y + size - vp.top, vp.height) + vp.top)
          [] OTHER -> front_position

\* The position the detached tail is given by advance.
new_head(segs, dir, vp) ==
    LET front_position == head_position(segs)
        size == EntitySize
        back_position == segs[Len(segs)]
    IN  CASE dir = "Left" ->
               Vector2f(Rem(front_position.x - size + vp.width - vp.left, vp.width) + vp.left,
                        front_position.y)
          [] dir = "Up" ->
               Vector2f(front_position.x,
                        Rem(front_position.y - size + vp.height - vp.top, vp.height) + vp.top)
          [] dir = "Right" ->
               Vector2f(Rem(front_position.x + size - vp.left, vp.width) + vp.left,
                        front_position.y)
          [] dir = "Down" ->
               Vector2f(front_position.x,
                        Rem(front_position.y + size - vp.top, vp.height) + vp.top)
          [] OTHER -> back_position

\* Snake::advance on the segments, with the direction it has just committed:
\* pop_back, set_position, push_front.
advance(segs, dir, vp) ==
    <<new_head(segs, dir, vp)>> \o SubSeq(segs, 1, Len(segs) - 1)

----------------------------------------------------------------------------
(* SnakeGame *)

\* SnakeGame::new: the window size rounded down to a multiple of entity_size.
window_size(w, h) == [x |-> w - (w % EntitySize), y |-> h - (h % EntitySize)]

new_viewport(ws) ==
    FloatRect(EntitySize, EntitySize * 2, ws.x - 2 * EntitySize, ws.y - 3 * EntitySize)

\* The draws of gen_range(0.0, extent) the model takes: the first and the last
\* whole pixel of every entity_size-wide strip of [0, extent).
Draws(extent) ==
    {u \in 0..(extent - 1) : u % EntitySize \in {0, EntitySize - 1}}

\* Mutant of random_position: the draws are not truncated to the grid.
random_position_untruncated(vp, ux, uy) == Vector2f(ux + vp.left, uy + vp.top)

\* SnakeGame::random_position for the draws ux, uy.
random_position(vp, ux, uy) ==
    LET x == ux + vp.left
        y == uy + vp.top
    IN  Vector2f(x - Rem(x, EntitySize), y - Rem(y, EntitySize))

RandomPositions(vp) ==
    {random_position(vp, ux, uy) : ux \in Draws(vp.width), uy \in Draws(vp.height)}

key_direction(key) ==
    CASE key = "A" -> "Left"
      [] key = "W" -> "Up"
      [] key = "D" -> "Right"
      [] key = "S" -> "Down"
      [] OTHER -> None

\* Mutant of may_turn: a lone head may not go backwards either.
may_turn_never_back(segs, dir, d) == ~is_opposite_to(d, dir)

\* Mutant of may_turn: every direction is accepted.
may_turn_always(segs, dir, d) == TRUE

\* The guard of handle_input: going backwards is allowed for a lone head only.
may_turn(segs, dir, d) == Len(segs) = 1 \/ ~is_opposite_to(d, dir)

\* Mutant of pauses: the pause key acts in every state.
pauses_anywhere(key, st) == key = "P"

\* handle_input: the pause key acts in Play only.
pauses(key, st) == key = "P" /\ st = "Play"

\* Mutant of update_returns: update returns early in Pause only.
update_returns_in_pause(st) == st = "Pause"

\* update: the early return of its first match.
update_returns(st) == st \in {"Pause", "GameOver"}

\* set_score: the number of decimal digits of n.
RECURSIVE digit_count(_)
digit_count(n) == IF n \div 10 # 0 THEN 1 + digit_count(n \div 10) ELSE 1

\* set_score: the offset of the score text from the right edge of the window;
\* character_size is the text_size the text was created with.
score_offset(sc) == digit_count(sc) * TextSize

\* Mutant of new_score: the step is added twice.
new_score_twice(sc) == sc + ScoreStep + ScoreStep

\* Mutant of new_score: the score counts the food eaten.
new_score_by_one(sc) == sc + 1

\* update: let new_score = self.score + 10 (u32; far below 2^32 on these grids).
new_score(sc) == sc + ScoreStep

\* Mutant of relocate_again: the candidate is tested against the head only.
relocate_again_head_only(segs, fp) ==
    intersection(area(fp), area(head_position(segs)))

\* update: the condition of the relocation loop.
relocate_again(segs, fp) == collision(segs, area(fp), 0)

Snapshot ==
    [segments |-> segments, direction |-> direction, next_direction |-> next_direction,
     food |-> food, score |-> score, state |-> state]

\* run: nothing has elapsed and nothing has been called.
ClockStart ==
    [elapsed |-> 0, subtracted |-> 0, updates |-> 0, last |-> None,
     iter_updates |-> 0, iter_renders |-> 0]

\* The window sizes given on the command line.
WindowWidths == {EntitySize * (c + 2) + r : c \in 1..MaxCols, r \in {0, 15}}
WindowHeights == {EntitySize * (c + 3) + r : c \in 1..2, r \in {0, 15}}

Init ==
    \E w \in WindowWidths, h \in WindowHeights :
        /\ viewport = new_viewport(window_size(w, h))
        /\ \E player_position \in RandomPositions(viewport) :
               segments = <<player_position>>
        /\ direction = None
        /\ next_direction = None
        /\ food \in RandomPositions(viewport)
        /\ food_position = food
        /\ score = 0
        /\ state = "Pause"
        /\ pc = "idle"
        /\ op = [kind |-> "new", key |-> None]
        /\ pre = Snapshot
        /\ committed = None
        /\ window = "open"
        /\ time_since_last_update = 0
        /\ rpc = "while_open"
        /\ clock = ClockStart
        /\ startup = [stage |-> "run", args |-> <<>>]

\* Mutant of handle_input: the pause key clears next_direction and leaves the
\* state alone.
handle_input_pause_keeps_state(key) ==
    /\ pc = "idle"
    /\ op' = [kind |-> "handle_input", key |-> key]
    /\ pre' = Snapshot
    /\ LET d == key_direction(key)
           over == state = "GameOver"
           segs == IF over THEN reset(segments) ELSE segments
           dir == IF over THEN None ELSE direction
           next == IF over THEN None ELSE next_direction
       IN  IF d # None
           THEN /\ segments' = segs
                /\ direction' = dir
                /\ score' = IF over THEN 0 ELSE score
                /\ IF may_turn(segs, dir, d)
                   THEN next_direction' = d /\ state' = "Play"
                   ELSE next_direction' = next /\ state' = state
           ELSE /\ UNCHANGED <<segments, direction, score>>
                /\ IF pauses(key, state)
                   THEN next_direction' = None /\ state' = state
                   ELSE UNCHANGED <<next_direction, state>>
    /\ UNCHANGED <<viewport, food, pc, food_position, committed>>

\* SnakeGame::handle_input(key)
handle_input(key) ==
    /\ pc = "idle"
    /\ op' = [kind |-> "handle_input", key |-> key]
    /\ pre' = Snapshot
    /\ LET d == key_direction(key)
           over == state = "GameOver"
           segs == IF over THEN reset(segments) ELSE segments
           dir == IF over THEN None ELSE direction
           next == IF over THEN None ELSE next_direction
       IN  IF d # None
           THEN /\ segments' = segs
                /\ direction' = dir
                /\ score' = IF over THEN 0 ELSE score
                /\ IF may_turn(segs, dir, d)
                   THEN next_direction' = d /\ state' = "Play"
                   ELSE next_direction' = next /\ state' = state
           ELSE /\ UNCHANGED <<segments, direction, score>>
                /\ IF pauses(key, state)
                   THEN next_direction' = None /\ state' = "Pause"
                   ELSE UNCHANGED <<next_direction, state>>
    /\ UNCHANGED <<viewport, food, pc, food_position, committed>>

KeyPressed == \E key \in Key : handle_input(key)

\* SnakeGame::update, up to its return or to the entry of the relocation loop.
update ==
    /\ pc = "idle"
    /\ op' = [kind |-> "update", key |-> None]
    /\ pre' = Snapshot
    /\ IF update_returns(state)
       THEN UNCHANGED <<game, pc, food_position, committed>>
       ELSE LET dir == next_direction
                segs == advance(segments, dir, viewport)
            IN  /\ direction' = dir
                /\ committed' = dir
                /\ UNCHANGED <<next_direction, food, score>>
                /\ IF self_collision(segs)
                   THEN /\ state' = "GameOver"
                        /\ segments' = segs
                        /\ UNCHANGED <<pc, food_position>>
                   ELSE /\ state' = state
                        /\ IF intersection(area(head_position(segs)), area(food))
                           THEN /\ segments' = grow(segs)
                                /\ food_position' \in RandomPositions(viewport)
                                /\ pc' = "relocate"
                           ELSE /\ segments' = segs
                                /\ UNCHANGED <<pc, food_position>>
    /\ UNCHANGED viewport

\* One test of the while condition of update's relocation loop, with its body.
relocate_draw(p) ==
    /\ pc = "relocate"
    /\ relocate_again(segments, food_position)
    /\ p \in RandomPositions(viewport)
    /\ food_position' = p
    /\ UNCHANGED <<viewport, game, pc, op, pre, committed>>

\* The exit of the loop and the rest of update: set_position, set_score.
relocate_exit ==
    /\ pc = "relocate"
    /\ ~relocate_again(segments, food_position)
    /\ food' = food_position
    /\ score' = new_score(score)
    /\ pc' = "idle"
    /\ UNCHANGED <<viewport, segments, direction, next_direction, state,
                   food_position, op, pre, committed>>

Relocate == \E p \in RandomPositions(viewport) : relocate_draw(p)

\* The handlers of the game in any order: run calls handle_input any number
\* of times before an update, and update any number of times in a row.
Next ==
    \/ KeyPressed /\ UNCHANGED runvars
    \/ update /\ UNCHANGED runvars
    \/ Relocate /\ UNCHANGED runvars
    \/ relocate_exit /\ UNCHANGED runvars

Spec == Init /\ [][Next]_vars

\* Every grid cell of every viewport the model starts from.
Cells ==
    {Vector2f(EntitySize * c, EntitySize * r) : c \in 1..MaxCols, r \in 2..3}

\* The game with fair random draws: every cell keeps being drawn while the
\* relocation loop runs, and the loop's exit is taken when its test fails.
FairSpec ==
    /\ Spec
    /\ WF_vars(relocate_exit /\ UNCHANGED runvars)
    /\ \A p \in Cells : WF_vars(relocate_draw(p) /\ UNCHANGED runvars)

\* Snake::advance called directly on the snake of a game that is between two
\* handlers; the call ends the run, so its result is no state of the game.
snake_advance ==
    /\ pc = "idle"
    /\ pc' = "called"
    /\ op' = [kind |-> "advance", key |-> None]
    /\ pre' = Snapshot
    /\ direction' = next_direction
    /\ segments' = advance(segments, next_direction, viewport)
    /\ UNCHANGED <<viewport, next_direction, food, score, state, food_position, committed>>

\* Snake::grow called directly, in the same way.
snake_grow ==
    /\ pc = "idle"
    /\ pc' = "called"
    /\ op' = [kind |-> "grow", key |-> None]
    /\ pre' = Snapshot
    /\ segments' = grow(segments)
    /\ UNCHANGED <<viewport, direction, next_direction, food, score, state,
                   food_position, committed>>

\* Snake::reset called directly, in the same way.
snake_reset ==
    /\ pc = "idle"
    /\ pc' = "called"
    /\ op' = [kind |-> "reset", key |-> None]
    /\ pre' = Snapshot
    /\ segments' = reset(segments)
    /\ direction' = None
    /\ next_direction' = None
    /\ UNCHANGED <<viewport, food, score, state, food_position, committed>>

SnakeNext ==
    \/ Next
    \/ snake_advance /\ UNCHANGED runvars
    \/ snake_grow /\ UNCHANGED runvars
    \/ snake_reset /\ UNCHANGED runvars

SnakeSpec == Init /\ [][SnakeNext]_vars

----------------------------------------------------------------------------
(* SnakeGame::run and process_events *)

\* The two calls of process_events in run, and where each returns to.
Drains == {"events", "events_tpf"}

\* Mutant of AfterDrain: the fixed step drains the events and calls no update.
AfterDrain_without_update(at) == IF at = "events" THEN "restart" ELSE "while_tpf"

AfterDrain(at) == IF at = "events" THEN "restart" ELSE "update"

\* run: while self.window.is_open()
run_while_open ==
    /\ rpc = "while_open"
    /\ IF window = "open"
       THEN /\ rpc' = "events"
            /\ clock' = [clock EXCEPT !.iter_updates = 0, !.iter_renders = 0]
       ELSE /\ rpc' = "returned"
            /\ UNCHANGED clock
    /\ UNCHANGED <<viewport, game, pc, food_position, op, pre, committed,
                   window, time_since_last_update, startup>>

\* process_events: poll_event gives Event::Closed.
poll_closed ==
    /\ rpc \in Drains
    /\ window = "open"
    /\ window' = "closed"
    /\ UNCHANGED <<viewport, game, pc, food_position, op, pre, committed,
                   time_since_last_update, rpc, clock, startup>>

\* process_events: poll_event gives Event::KeyPressed.
poll_key ==
    /\ rpc \in Drains
    /\ window = "open"
    /\ KeyPressed
    /\ UNCHANGED runvars

\* process_events: poll_event gives None (as it does once the window is
\* closed), and the call returns.
poll_none ==
    /\ rpc \in Drains
    /\ rpc' = AfterDrain(rpc)
    /\ clock' = [clock EXCEPT !.last = "process_events"]
    /\ UNCHANGED <<viewport, game, pc, food_position, op, pre, committed,
                   window, time_since_last_update, startup>>

\* run: time_since_last_update += clock.restart()
run_restart ==
    /\ rpc = "restart"
    /\ \E dt \in 0..MaxDt :
        /\ clock.elapsed + dt <= MaxElapsed
        /\ time_since_last_update' = time_since_last_update + dt
        /\ clock' = [clock EXCEPT !.elapsed = @ + dt]
    /\ rpc' = "while_tpf"
    /\ UNCHANGED <<viewport, game, pc, food_position, op, pre, committed,
                   window, startup>>

\* run: while time_since_last_update > tpf, and the subtraction of its body.
run_while_tpf ==
    /\ rpc = "while_tpf"
    /\ IF time_since_last_update > time_per_frame
       THEN /\ time_since_last_update' = time_since_last_update - time_per_frame
            /\ clock' = [clock EXCEPT !.subtracted = @ + 1]
            /\ rpc' = "events_tpf"
       ELSE /\ rpc' = "render"
            /\ UNCHANGED <<time_since_last_update, clock>>
    /\ UNCHANGED <<viewport, game, pc, food_position, op, pre, committed,
                   window, startup>>

\* run: self.update(tpf), up to its return or to its relocation loop.
run_update ==
    /\ rpc = "update"
    /\ update
    /\ rpc' = IF pc' = "idle" THEN "while_tpf" ELSE "in_update"
    /\ clock' = [clock EXCEPT !.updates = @ + 1, !.iter_updates = @ + 1,
                              !.last = "update"]
    /\ UNCHANGED <<window, time_since_last_update, startup>>

\* run: inside the relocation loop of the update it has called.
run_relocate ==
    /\ rpc = "in_update"
    /\ Relocate
    /\ UNCHANGED runvars

\* run: the update it has called leaves its relocation loop and returns.
run_relocate_exit ==
    /\ rpc = "in_update"
    /\ relocate_exit
    /\ rpc' = "while_tpf"
    /\ UNCHANGED <<window, time_since_last_update, clock, startup>>

\* run: self.render()
run_render ==
    /\ rpc = "render"
    /\ rpc' = "while_open"
    /\ clock' = [clock EXCEPT !.iter_renders = @ + 1, !.last = "render"]
    /\ UNCHANGED <<viewport, game, pc, food_position, op, pre, committed,
                   window, time_since_last_update, startup>>

RunNext ==
    \/ run_while_open
    \/ poll_closed
    \/ poll_key
    \/ poll_none
    \/ run_restart
    \/ run_while_tpf
    \/ run_update
    \/ run_relocate
    \/ run_relocate_exit
    \/ run_render

\* The game as SnakeGame::run drives it.
RunSpec == Init /\ [][RunNext]_vars

----------------------------------------------------------------------------
(* Startup: main, Config::new, Resources::new, SnakeGame::new *)

\* The arguments the model starts the process with, after the program name.
ArgTokens == {"abc", "-40", "0", "40", "120", "160", "175"}

\* str::parse::<u32> on these arguments: the number, or -1 for an Err.
parse_u32(t) ==
    CASE t = "0" -> 0
      [] t = "40" -> 40
      [] t = "120" -> 120
      [] t = "160" -> 160
      [] t = "175" -> 175
      [] OTHER -> -1

CommandLines ==
    {<<>>} \cup {<<w>> : w \in ArgTokens}
           \cup {<<w, h>> : w \in ArgTokens, h \in ArgTokens}
           \cup {<<w, h, "x">> : w \in {"abc", "160"}, h \in {"0", "175"}}

\* The process has started: no window and no game exist.
StartInit ==
    /\ startup \in {[stage |-> "main", args |-> a] : a \in CommandLines}
    /\ window = "none"
    /\ viewport = FloatRect(0, 0, 0, 0)
    /\ segments = <<>>
    /\ direction = None
    /\ next_direction = None
    /\ food = Vector2f(0, 0)
    /\ food_position = food
    /\ score = 0
    /\ state = "Pause"
    /\ pc = "idle"
    /\ op = [kind |-> "main", key |-> None]
    /\ pre = Snapshot
    /\ committed = None
    /\ time_since_last_update = 0
    /\ rpc = "while_open"
    /\ clock = ClockStart

\* The width and height Config::new has parsed.
config_window_size(args) == [x |-> parse_u32(args[1]), y |-> parse_u32(args[2])]

\* Config::new, called by main: Err for fewer than two arguments (message,
\* exit 1), a panic of expect for an argument that is no u32.
config_new ==
    /\ startup.stage = "main"
    /\ LET args == startup.args
       IN  startup' =
               [startup EXCEPT !.stage =
                   IF Len(args) < 2 THEN "exit_error"
                   ELSE IF parse_u32(args[1]) < 0 \/ parse_u32(args[2]) < 0
                        THEN "panic"
                        ELSE "config"]
    /\ UNCHANGED <<viewport, game, pc, food_position, op, pre, committed,
                   window, time_since_last_update, rpc, clock>>

\* Resources::new, called by run: a file that cannot be loaded is a panic.
resources_new ==
    /\ startup.stage = "config"
    /\ \E loaded \in BOOLEAN :
           startup' = [startup EXCEPT !.stage = IF loaded THEN "resources" ELSE "panic"]
    /\ UNCHANGED <<viewport, game, pc, food_position, op, pre, committed,
                   window, time_since_last_update, rpc, clock>>

\* SnakeGame::new up to the creation of the window.
new_window ==
    /\ startup.stage = "resources"
    /\ LET cfg == config_window_size(startup.args)
       IN  viewport' = new_viewport(window_size(cfg.x, cfg.y))
    /\ window' = "open"
    /\ startup' = [startup EXCEPT !.stage = "window"]
    /\ UNCHANGED <<game, pc, food_position, op, pre, committed,
                   time_since_last_update, rpc, clock>>

\* SnakeGame::new: the u32 subtraction window_size.x - text_size of the score
\* position panics when it overflows in a build that checks overflow, and
\* wraps in a build that does not.
new_score_text ==
    /\ startup.stage = "window"
    /\ LET cfg == config_window_size(startup.args)
           ws == window_size(cfg.x, cfg.y)
       IN  \E checked \in BOOLEAN :
               startup' = [startup EXCEPT !.stage =
                   IF ws.x < TextSize /\ checked THEN "panic" ELSE "text"]
    /\ UNCHANGED <<viewport, game, pc, food_position, op, pre, committed,
                   window, time_since_last_update, rpc, clock>>

\* SnakeGame::new: the snake and the food at random positions, and the game.
\* gen_range(0.0, extent) panics unless 0.0 < extent.
new_entities ==
    /\ startup.stage = "text"
    /\ IF viewport.width <= 0 \/ viewport.height <= 0
       THEN /\ startup' = [startup EXCEPT !.stage = "panic"]
            /\ UNCHANGED <<game, food_position, op, pre>>
       ELSE /\ startup' = [startup EXCEPT !.stage = "constructed"]
            /\ \E player_position \in RandomPositions(viewport) :
                   segments' = <<player_position>>
            /\ direction' = None
            /\ next_direction' = None
            /\ food' \in RandomPositions(viewport)
            /\ food_position' = food'
            /\ score' = 0
            /\ state' = "Pause"
            /\ op' = [kind |-> "new", key |-> None]
            /\ pre' = [segments |-> segments', direction |-> None,
                       next_direction |-> None, food |-> food', score |-> 0,
                       state |-> "Pause"]
    /\ UNCHANGED <<viewport, pc, committed, window, time_since_last_update,
                   rpc, clock>>

StartNext ==
    \/ config_new
    \/ resources_new
    \/ new_window
    \/ new_score_text
    \/ new_entities

\* The process from its command line to the constructed game.
StartSpec == StartInit /\ [][StartNext]_vars

\* A narrow and tall window: a viewport of one column and TallRows rows.
TallRows == 11

\* SnakeGame::new for the command line of that window.
TallInit ==
    /\ viewport = new_viewport(window_size(3 * EntitySize, (TallRows + 3) * EntitySize))
    /\ \E player_position \in RandomPositions(viewport) :
           segments = <<player_position>>
    /\ direction = None
    /\ next_direction = None
    /\ food \in RandomPositions(viewport)
    /\ food_position = food
    /\ score = 0
    /\ state = "Pause"
    /\ pc = "idle"
    /\ op = [kind |-> "new", key |-> None]
    /\ pre = Snapshot
    /\ committed = None
    /\ window = "open"
    /\ time_since_last_update = 0
    /\ rpc = "while_open"
    /\ clock = ClockStart
    /\ startup = [stage |-> "run", args |-> <<>>]

\* The game handlers, in any order, in that window.
TallSpec == TallInit /\ [][Next]_vars

----------------------------------------------------------------------------
(* Properties *)

\* The direction of the key the latest handle_input was called with.
OpDirection == key_direction(op.key)

KeyHandled == op.kind = "handle_input"
DirectionalKeyHandled == KeyHandled /\ OpDirection # None
UpdateCalled == op.kind = "update"

\* C1: the game starts in Pause, and a handler changes the state only along
\* Pause->Play (directional key), Play->Pause (pause key), Play->GameOver
\* (update) and GameOver->Play (directional key).
C1_StateMachine ==
    /\ op.kind = "new" => state = "Pause"
    /\ state # pre.state =>
        \/ pre.state = "Pause" /\ state = "Play" /\ DirectionalKeyHandled
        \/ pre.state = "Play" /\ state = "Pause" /\ KeyHandled /\ op.key = "P"
        \/ pre.state = "Play" /\ state = "GameOver" /\ UpdateCalled
        \/ pre.state = "GameOver" /\ state = "Play" /\ DirectionalKeyHandled

\* A game over has been left again by a directional key, in a game that was
\* paused and resumed on its way.
C1_Witness ==
    /\ pre.state = "GameOver" /\ state = "Play" /\ DirectionalKeyHandled
    /\ committed # None

\* C2 as stated: in Pause, every directional key moves the game to Play and is
\* stored as next_direction.
C2_AnyKeyResumes ==
    (DirectionalKeyHandled /\ pre.state = "Pause") =>
        (state = "Play" /\ next_direction = OpDirection)

\* C2, amended: in Pause, a directional key moves the game to Play and is
\* stored as next_direction when the snake has one segment or the key is not
\* the opposite of the committed direction; otherwise the game stays paused
\* with next_direction unset.
C2_KeyResumesUnlessReversal ==
    (DirectionalKeyHandled /\ pre.state = "Pause") =>
        IF Len(pre.segments) = 1 \/ ~is_opposite_to(OpDirection, pre.direction)
        THEN state = "Play" /\ next_direction = OpDirection
        ELSE state = "Pause" /\ next_direction = None

\* A paused game with a snake of several segments has been resumed.
C2_Witness ==
    /\ DirectionalKeyHandled /\ pre.state = "Pause"
    /\ Len(pre.segments) > 1 /\ pre.direction # None
    /\ state = "Play"

\* C3: an advance of update on a snake of more than one segment never commits
\* the opposite of the direction the previous advance committed.
C3_NoReversal ==
    [][(pc = "idle" /\ op'.kind = "update" /\ ~update_returns(state)
            /\ Len(segments) > 1)
        => ~is_opposite_to(committed', committed)]_vars

\* An advance has turned a snake of several segments.
C3_Witness ==
    /\ UpdateCalled /\ pre.state = "Play"
    /\ Len(pre.segments) > 1
    /\ pre.direction # None /\ direction # pre.direction

\* C4: a directional key in GameOver leaves the former head alone at its
\* position, no committed direction, the key's direction pending, score 0,
\* state Play, and the food where it was.
C4_GameOverRestart ==
    (DirectionalKeyHandled /\ pre.state = "GameOver") =>
        /\ segments = <<Head(pre.segments)>>
        /\ direction = None
        /\ next_direction = OpDirection
        /\ score = 0
        /\ state = "Play"
        /\ food = pre.food

\* A game over of a snake of three segments or more has been restarted.
C4_Witness ==
    /\ DirectionalKeyHandled /\ pre.state = "GameOver"
    /\ Len(pre.segments) >= 3 /\ pre.score > 0

\* C5: update in Pause or GameOver changes no field of the game.
C5_UpdateNoop ==
    (UpdateCalled /\ pre.state \in {"Pause", "GameOver"}) =>
        (Snapshot = pre /\ pc = "idle")

\* update has been called on a game over with a pending direction.
C5_Witness ==
    /\ UpdateCalled /\ pre.state = "GameOver"
    /\ pre.next_direction # None

\* Whether the head of the update called last landed on the food.
LandedOnFood ==
    intersection(area(new_head(pre.segments, pre.next_direction, viewport)),
                 area(pre.food))

\* C6: the score changes only by +10 in an update whose head lands on the
\* food, and to 0 by a directional key in GameOver; such an update that has
\* returned has added exactly 10, and such a key has set 0.
C6_ScoreChanges ==
    /\ score # pre.score =>
        \/ /\ UpdateCalled /\ pre.state = "Play" /\ LandedOnFood
           /\ score = pre.score + 10
        \/ /\ DirectionalKeyHandled /\ pre.state = "GameOver"
           /\ score = 0
    /\ (UpdateCalled /\ pre.state = "Play" /\ LandedOnFood /\ pc = "idle") =>
        score = pre.score + 10
    /\ (DirectionalKeyHandled /\ pre.state = "GameOver") => score = 0

\* The food has been eaten a second time.
C6_Witness ==
    /\ UpdateCalled /\ pre.state = "Play" /\ LandedOnFood /\ pc = "idle"
    /\ pre.score = 10 /\ score = 20

\* The food has just been placed: by SnakeGame::new, or by an update that
\* has grown the snake and left its relocation loop.
FoodPlaced ==
    \/ op.kind = "new"
    \/ UpdateCalled /\ pc = "idle" /\ Len(segments) > Len(pre.segments)

\* C7: whenever the food is placed, at construction or by a relocation, its
\* area intersects the area of no snake segment.
C7_FoodPlacedFree ==
    FoodPlaced => ~collision(segments, area(food), 0)

\* The expected position of the head after an advance in direction d: the
\* coordinate on the moving axis is (c - origin +/- size + extent) mod extent
\* + origin, the other coordinate is kept.
WrappedStep(p, d, vp) ==
    CASE d = "Left" ->
           Vector2f(((p.x - vp.left - EntitySize + vp.width) % vp.width) + vp.left, p.y)
      [] d = "Right" ->
           Vector2f(((p.x - vp.left + EntitySize + vp.width) % vp.width) + vp.left, p.y)
      [] d = "Up" ->
           Vector2f(p.x, ((p.y - vp.top - EntitySize + vp.height) % vp.height) + vp.top)
      [] d = "Down" ->
           Vector2f(p.x, ((p.y - vp.top + EntitySize + vp.height) % vp.height) + vp.top)

AdvanceCalled == op.kind = "advance"

\* C8: advance with next_direction = d puts the head one segment size further
\* in direction d, wrapped inside the viewport, keeps the segment count, and
\* moves the position of every index i - 1 to index i.
C8_AdvanceMoves ==
    (AdvanceCalled /\ pre.next_direction # None) =>
        /\ Len(segments) = Len(pre.segments)
        /\ direction = pre.next_direction
        /\ segments[1] = WrappedStep(pre.segments[1], pre.next_direction, viewport)
        /\ segments[1].x >= viewport.left
        /\ segments[1].x < viewport.left + viewport.width
        /\ segments[1].y >= viewport.top
        /\ segments[1].y < viewport.top + viewport.height
        /\ \A i \in 2..Len(segments) : segments[i] = pre.segments[i - 1]

\* advance has moved a snake of three segments or more across the right edge
\* of a viewport that is wider than one cell.
C8_Witness ==
    /\ AdvanceCalled /\ pre.next_direction = "Right"
    /\ Len(pre.segments) >= 3
    /\ viewport.width > EntitySize
    /\ segments[1].x < pre.segments[1].x

\* C9 as stated: advance with next_direction unset keeps the segment count
\* and the position found at every index, the head's included.
C9_AdvanceUnsetKeepsIndices ==
    (AdvanceCalled /\ pre.next_direction = None) =>
        /\ Len(segments) = Len(pre.segments)
        /\ \A i \in 1..Len(segments) : segments[i] = pre.segments[i]

\* C9, amended: advance with next_direction unset keeps the segment count and
\* the position of every segment entity; the former tail segment becomes the
\* head at its old position, so the head-first sequence of positions is
\* rotated by one, and is unchanged for a snake of one segment.
C9_AdvanceUnsetRotates ==
    (AdvanceCalled /\ pre.next_direction = None) =>
        /\ Len(segments) = Len(pre.segments)
        /\ direction = None
        /\ segments[1] = pre.segments[Len(pre.segments)]
        /\ \A i \in 2..Len(segments) : segments[i] = pre.segments[i - 1]
        /\ Len(pre.segments) = 1 => segments = pre.segments

\* advance has been called with next_direction unset on a snake of three
\* segments or more whose tail is not where its head is.
C9_Witness ==
    /\ AdvanceCalled /\ pre.next_direction = None
    /\ Len(pre.segments) >= 3
    /\ pre.segments[Len(pre.segments)] # pre.segments[1]

\* Some grid cell of the viewport holds no snake segment.
FreeCellExists ==
    \E p \in RandomPositions(viewport) : ~collision(segments, area(p), 0)

\* C10: with fair draws, a relocation loop entered while some grid cell is
\* free is left, with the food on a cell that no segment occupies.
C10_RelocationTerminates ==
    (pc = "relocate" /\ FreeCellExists)
        ~> (pc = "idle" /\ food = food_position
                /\ ~collision(segments, area(food), 0))

\* The relocation loop has drawn an occupied cell while a free one exists, on
\* a snake of three segments or more.
C10_Witness ==
    /\ pc = "relocate" /\ FreeCellExists
    /\ collision(segments, area(food_position), 0)
    /\ Len(segments) >= 3

\* run is between the subtraction of a period and the update called for it.
UpdateOwed == rpc \in {"events_tpf", "update"}

\* C11: run calls update once for each period subtracted, right after an
\* event drain; it renders once per outer iteration, after the iteration's
\* updates, with the accumulator between 0 and the period; and the elapsed
\* time is the periods paid by update calls plus the accumulator.
C11_FrameAccounting ==
    /\ clock.subtracted - clock.updates = (IF UpdateOwed THEN 1 ELSE 0)
    /\ rpc = "update" => clock.last = "process_events"
    /\ clock.iter_renders <= 1
    /\ clock.iter_renders = 1 => rpc \in {"while_open", "returned"}
    /\ (rpc \in {"while_open", "returned"} /\ clock.last # None) =>
        (clock.last = "render" /\ clock.iter_renders = 1)
    /\ rpc = "render" =>
        (time_since_last_update >= 0 /\ time_since_last_update <= time_per_frame)
    /\ clock.elapsed = clock.subtracted * time_per_frame + time_since_last_update
    /\ ~UpdateOwed =>
        clock.elapsed = clock.updates * time_per_frame + time_since_last_update

\* An outer iteration has called update twice and then rendered.
C11_Witness ==
    /\ rpc = "while_open" /\ clock.last = "render"
    /\ clock.iter_updates = 2 /\ clock.iter_renders = 1
    /\ time_since_last_update > 0

\* C17: once the window is closed, run calls no update and the game is not
\* advanced.
C17_NoUpdateAfterClose ==
    [][window = "closed" => (clock'.updates = clock.updates /\ game' = game)]_vars

\* The width and the height are given and are positive integers.
ArgsValid ==
    /\ Len(startup.args) >= 2
    /\ startup.args[1] \in {"40", "120", "160", "175"}
    /\ startup.args[2] \in {"40", "120", "160", "175"}

\* C12: with a missing, non-numeric or non-positive width or height the
\* startup never creates the window or the game and never ends constructed;
\* only two positive integers lead to a constructed game.
C12_StartupValidation ==
    /\ ~ArgsValid =>
        /\ window = "none"
        /\ segments = <<>>
        /\ startup.stage # "constructed"
    /\ startup.stage = "constructed" => ArgsValid

\* C13: an update in Play ends in GameOver exactly when, after the advance,
\* the head is on the cell of a segment of index 1 or more; otherwise the
\* state stays Play; a snake of one segment never ends in GameOver.
C13_GameOverIffCollision ==
    (UpdateCalled /\ pre.state = "Play") =>
        LET n == Len(pre.segments)
            hit == \E i \in 2..n : segments[i] = segments[1]
        IN  /\ state = "GameOver" <=> hit
            /\ ~hit => state = "Play"
            /\ n = 1 => state = "Play"

\* An update has ended the game of a snake of three segments or more.
C13_Witness ==
    /\ UpdateCalled /\ pre.state = "Play" /\ state = "GameOver"
    /\ Len(pre.segments) >= 3

OppositeOf(d) ==
    CASE d = "Left" -> "Right"
      [] d = "Right" -> "Left"
      [] d = "Up" -> "Down"
      [] d = "Down" -> "Up"
      [] OTHER -> None

\* The key handled last was one handle_input ignores: no movement or pause
\* key, the pause key outside Play, or the reversal of a snake of several
\* segments outside GameOver.
IgnoredKey ==
    /\ KeyHandled
    /\ \/ op.key \notin {"A", "W", "D", "S", "P"}
       \/ op.key = "P" /\ pre.state \in {"Pause", "GameOver"}
       \/ /\ OpDirection # None
          /\ pre.direction # None
          /\ OpDirection = OppositeOf(pre.direction)
          /\ Len(pre.segments) > 1
          /\ pre.state # "GameOver"

\* C14: an ignored key changes no field of the game.
C14_IgnoredKeys == IgnoredKey => Snapshot = pre

\* The reversal of a snake of several segments has been ignored in Play, with
\* another direction pending.
C14_Witness ==
    /\ IgnoredKey /\ OpDirection # None
    /\ pre.state = "Play"
    /\ pre.next_direction # pre.direction

C16_NeverEmpty == Len(segments) >= 1

\* reset has been called on a snake of three segments or more.
C16_Witness ==
    /\ op.kind = "reset"
    /\ Len(pre.segments) >= 3
    /\ Len(segments) = 1

\* C18: between two handlers the score is 10 for each segment but the first.
C18_ScoreIsLength ==
    pc = "idle" => score = 10 * (Len(segments) - 1)

\* A game over with a score of 20 or more.
C18_Witness ==
    /\ pc = "idle" /\ state = "GameOver"
    /\ score >= 20

\* C19: in Play next_direction is set; an update in Play commits it and puts
\* the head one cell further in that direction.
C19_PlayHasDirection ==
    /\ state = "Play" => next_direction # None
    /\ (UpdateCalled /\ pre.state = "Play") =>
        /\ direction # None
        /\ direction = next_direction
        /\ segments[1] = WrappedStep(pre.segments[1], direction, viewport)

\* An update in Play has turned the snake and moved its head to another cell,
\* after a pause.
C19_Witness ==
    /\ UpdateCalled /\ pre.state = "Play" /\ state = "Play"
    /\ pre.direction # None /\ direction # pre.direction
    /\ pre.score > 0
    /\ segments[1] # pre.segments[1]

\* p is a cell of the viewport's grid.
OnGrid(p) ==
    /\ p.x >= viewport.left /\ p.x < viewport.left + viewport.width
    /\ p.y >= viewport.top /\ p.y < viewport.top + viewport.height
    /\ (p.x - viewport.left) % EntitySize = 0
    /\ (p.y - viewport.top) % EntitySize = 0

\* C20: every segment and the food are on cells of the viewport's grid, and
\* the viewport has its origin at (size, 2 * size) and whole cells.
C20_InsideViewport ==
    /\ viewport.left = EntitySize /\ viewport.top = 2 * EntitySize
    /\ viewport.width % EntitySize = 0 /\ viewport.height % EntitySize = 0
    /\ \A i \in 1..Len(segments) : OnGrid(segments[i])
    /\ OnGrid(food)

\* A snake of four segments has wrapped around the right edge.
C20_Witness ==
    /\ Len(segments) >= 4
    /\ UpdateCalled /\ pre.state = "Play" /\ direction = "Right"
    /\ segments[1].x < pre.segments[1].x

\* C21: with fair draws, every update that has entered the relocation loop
\* leaves it, whatever the snake covers.
C21_UpdateReturns == pc = "relocate" ~> pc = "idle"

\* The width of the window the viewport was cut from: the viewport leaves one
\* entity on each side.
window_width == viewport.width + 2 * EntitySize

\* SnakeGame::new has computed the position of the score text.
ScoreTextPlaced ==
    /\ window = "open"
    /\ startup.stage \in {"text", "constructed", "panic"}

\* C22: the unsigned subtractions of the score text never go below zero: the
\* text size fits the window width when SnakeGame::new places the text, and
\* the offset of the score fits it in every game.
C22_OffsetFits ==
    /\ ScoreTextPlaced => window_width - TextSize >= 0
    /\ startup.stage \in {"constructed", "run"} =>
           window_width - score_offset(score) >= 0

====
